---------------------------- MODULE Spec2Model ----------------------------
(***************************************************************************)
(* Model of the task scheduling core of hamidoujand/task-scheduler:        *)
(* business/domain/scheduler/scheduler.go, the task service                *)
(* (business/domain/task/task.go), the retry store                         *)
(* (business/domain/scheduler/store/redis/redis.go) and the task store.    *)
(*                                                                         *)
(* Time is discrete; one unit is 30 seconds, so time.Minute is 2 units and *)
(* the 30 second floor of the execution time is 1 unit.                    *)
(***************************************************************************)
EXTENDS Integers, Sequences, FiniteSets, Bags, TLC

(***************************************************************************)
(* Bounds of the model.                                                    *)
(***************************************************************************)
Tasks == {"T1", "T2", "T3"}

\* Config.MaxRunningTask: capacity of the semaphore.
MaxRunningTask == 2

\* Config.MaxRetries.
MaxRetries == 1

\* Config.MaxTimeForTaskExecution, in units of 30 seconds.
ConfMaxTimeForTaskExecution == 1

\* New is called with MaxRunningTask, MaxRetries and
\* MaxTimeForTaskExecution in -1..MaxConf.
MaxConf == 2

\* The RetryStore is called from outside with counts in 0..MaxCount.
MaxCount == 11

\* The clock stops advancing at MaxTime.
MaxTime == 4

\* A task is created with ScheduledAt at most MaxAhead units after "now".
MaxAhead == 2

\* The grace periods a caller may pass to Shutdown are 1..MaxGrace.
MaxGrace == 2

\* Message bodies that are not the JSON of a task are published at most
\* MaxGarbage times.
MaxGarbage == 2

(***************************************************************************)
(* Program constants.                                                      *)
(***************************************************************************)
\* time.Minute, in units of 30 seconds.
OneMinute == 2

\* time.Second*30: floor of the execution time.
ThirtySeconds == 1

\* task.Status (iota).
StatusPending == 0
StatusFailed == 1
StatusCompleted == 2

\* Sandbox output and error text (any non-empty strings).
Stdout == "out"
RunError == "err"

ExecIds == 1..(MaxRunningTask + 1)

NoTask == [Status |-> "none"]
NoTsk == [Id |-> "none"]
NotFound == -1
NoKey == <<>>
NoScheduler == [sem |-> "nil"]
NoCall == [name |-> "none"]

VARIABLES
    now,        \* wall clock
    env,        \* the run's environment: faults (broker and store operations
                \* may return errors), ids (the task ids CreateTask uses),
                \* ahead (how far in the future ScheduledAt may lie) and
                \* grace (the longest grace period passed to Shutdown); acks
                \* (msg.Ack may return an error)
    store,      \* TaskStore: task id -> database row, or NoTask
    retries,    \* RetryStore: task id -> value of the field "retries" of
                \* the key of the task (a decimal string), or NoKey
    qTasks,     \* queue_tasks
    qSuccess,   \* queue_success
    qFailed,    \* queue_failed
    qRetry,     \* queue_retry
    shutdown,   \* s.shutdown is closed
    sem,        \* number of tokens in s.sem
    executers,  \* s.executers: set of registered executer ids
    wg,         \* s.wg counter
    ex,         \* executer goroutines
    tc,         \* goroutine of ConsumeTasks
    rc,         \* goroutine of OnTaskRetry: "running" or "exited"
    handlers,   \* bag of running handleXMessage goroutines (delivery acked)
    mon,        \* goroutine of MonitorScheduledTasks
    sd,         \* the call of Shutdown
    runs,       \* history: number of docker.RunCommand calls per task
    updates,    \* history: number of TaskStore updates per task
    hist,       \* history: lateRetryPub (a retry handler published onto
                \* queue_tasks with the latch closed), retryAtShutdown (tasks
                \* with a retry message queued or in a handler when Shutdown
                \* began), succeeded (tasks with a successful run), monDue
                \* and monFailed (tasks returned by the last due query of the
                \* monitor, and those of them whose publish failed),
                \* honoured (every executer registered when Shutdown began
                \* was past its sleep, where the cancel is honoured),
                \* lateOutcome (tasks with a message published onto
                \* queue_success with the latch closed), written (ids
                \* with a successful Create or Update of the RetryStore)
    op          \* the last call of New or of the RetryStore made from outside
                \* the scheduler's goroutines, with its arguments and result

vars == <<now, env, op, store, retries, qTasks, qSuccess, qFailed, qRetry,
          shutdown, sem, executers, wg, ex, tc, rc, handlers, mon, sd,
          runs, updates, hist>>

(***************************************************************************)
(* Pure functions.                                                         *)
(***************************************************************************)
\* Mutant of StatusString: the names of failed and completed are swapped.
StatusString_Swapped(s) ==
    IF s < StatusPending \/ s > StatusCompleted THEN "UNKNOWN"
    ELSE <<"pending", "completed", "failed">>[s + 1]

\* Status.String
StatusString(s) ==
    IF s < StatusPending \/ s > StatusCompleted THEN "UNKNOWN"
    ELSE <<"pending", "failed", "completed">>[s + 1]

\* toDBTask: the columns Update and Create write.
toDBTask(t) ==
    [Status |-> StatusString(t.Status), Result |-> t.Result,
     ErrorMessage |-> t.ErrMessage, ScheduledAt |-> t.ScheduledAt]

\* ParseStatus, with the -1 of the error case.
ParseStatus(s) ==
    IF s = "pending" THEN StatusPending
    ELSE IF s = "failed" THEN StatusFailed
    ELSE IF s = "completed" THEN StatusCompleted
    ELSE -1

\* toDomainTask
toDomainTask(id, row) ==
    [Id |-> id, Status |-> ParseStatus(row.Status), Result |-> row.Result,
     ErrMessage |-> row.ErrorMessage, ScheduledAt |-> row.ScheduledAt]

\* json.Marshal of a task.Task; the struct has no tags, every field is kept.
Marshal(t) ==
    [Id |-> t.Id, Status |-> t.Status, Result |-> t.Result,
     ErrMessage |-> t.ErrMessage, ScheduledAt |-> t.ScheduledAt]

\* parseTask: json.Unmarshal of a message body.
parseTask(bs) ==
    [Id |-> bs.Id, Status |-> bs.Status, Result |-> bs.Result,
     ErrMessage |-> bs.ErrMessage, ScheduledAt |-> bs.ScheduledAt]

\* A message body that is not the JSON of a task.
Garbage == [Id |-> "garbage"]

\* parseTask: json.Unmarshal returns no error.
Unmarshals(bs) == bs # Garbage

Digits == <<"0", "1", "2", "3", "4", "5", "6", "7", "8", "9">>

\* The decimal string redis stores for the integer n.
RECURSIVE Itoa(_)
Itoa(n) ==
    IF n < 0 THEN <<"-">> \o Itoa(-n)
    ELSE IF n < 10 THEN <<Digits[n + 1]>>
    ELSE Itoa(n \div 10) \o <<Digits[(n % 10) + 1]>>

\* strconv.Atoi of a decimal string.
RECURSIVE Atoi(_)
Atoi(str) ==
    LET val(c) == (CHOOSE d \in 1..10 : Digits[d] = c) - 1
    IN IF Head(str) = "-" THEN -Atoi(Tail(str))
       ELSE IF Len(str) = 1 THEN val(str[1])
       ELSE 10 * Atoi(SubSeq(str, 1, Len(str) - 1)) + val(str[Len(str)])

\* Mutant of Create: the field is set only when the key does not exist.
Create_IfAbsent(r, taskId) ==
    IF r[taskId] = NoKey THEN [r EXCEPT ![taskId] = Itoa(0)] ELSE r

\* Repository.Create: HSet of "retries" to 0.
Create(r, taskId) == [r EXCEPT ![taskId] = Itoa(0)]

\* Repository.Get: HGet and strconv.Atoi; redis.Nil is NotFound.
Get(r, taskId) == IF r[taskId] = NoKey THEN NotFound ELSE Atoi(r[taskId])

\* Repository.Update: HSet of "retries" to n.
Update(r, taskId, n) == [r EXCEPT ![taskId] = Itoa(n)]

\* Repository.Delete: Del of the key.
Delete(r, taskId) == [r EXCEPT ![taskId] = NoKey]

\* Results of msg.Ack: TRUE is success.
AckOutcomes == IF env.acks THEN BOOLEAN ELSE {TRUE}

\* Mutant of Acked: the error of msg.Ack is ignored.
Acked_Ignored(ack) == TRUE

\* err == nil after msg.Ack(false): the handler goes on only then.
Acked(ack) == ack

\* Results an operation that can fail may have: TRUE is success.
Outcomes == IF env.faults THEN BOOLEAN ELSE {TRUE}

\* The execution time after the floor of submitTask.
maxTimeForTaskExecution ==
    IF ConfMaxTimeForTaskExecution < ThirtySeconds THEN ThirtySeconds
    ELSE ConfMaxTimeForTaskExecution

\* ctx.Done() of an executer's context: cancelled or past its deadline.
CtxDone(e) == e.cancelled \/ now >= e.deadline

\* Mutant of timeTillExecution: the executer never sleeps.
timeTillExecution_Zero(e) == 0

\* time.Until(tsk.ScheduledAt) of the executer goroutine.
timeTillExecution(e) == e.tsk.ScheduledAt - now

\* Mutant of DueWithin: a task whose time has passed is not due.
DueWithin_Ahead(scheduledAt, from) ==
    scheduledAt - from <= OneMinute /\ scheduledAt >= from

\* Mutant of DueWithin: the window is compared with < instead of <=.
DueWithin_Strict(scheduledAt, from) == scheduledAt - from < OneMinute

\* Repository.GetDueTasks: the comparison with the one minute window.
DueWithin(scheduledAt, from) == scheduledAt - from <= OneMinute

\* Repository.GetDueTasks of the in-memory store: every stored task whose
\* ScheduledAt is at most one minute after from.
GetDueTasks(from) ==
    {t \in Tasks : store[t] # NoTask /\ DueWithin(store[t].ScheduledAt, from)}

\* Service.GetAllDueTasks: the pending tasks within the window.
GetAllDueTasks(from) ==
    {t \in Tasks : /\ store[t] # NoTask
                   /\ store[t].Status = "pending"
                   /\ DueWithin(store[t].ScheduledAt, from)}

\* Number of messages of task t in queue q.
Count(t, q) == Cardinality({i \in 1..Len(q) : q[i].Id = t})

Idle == [pc |-> "free", tsk |-> NoTsk, deadline |-> 0, cancelled |-> FALSE]

Handler(kind, tsk, n) == [kind |-> kind, tsk |-> tsk, retries |-> n]

One(h) == SetToBag({h})

\* The configuration the scheduler is built with.
Conf ==
    [MaxRunningTask |-> MaxRunningTask, MaxRetries |-> MaxRetries,
     MaxTimeForTaskExecution |-> ConfMaxTimeForTaskExecution,
     declared |-> TRUE]

\* The configurations New is called with; declared is the outcome of the
\* DeclareQueue calls.
Confs ==
    [MaxRunningTask : -1..MaxConf, MaxRetries : -1..MaxConf,
     MaxTimeForTaskExecution : -1..MaxConf, declared : BOOLEAN]

\* Mutant of New: MaxRetries is not validated.
New_NoRetriesCheck(conf) ==
    IF ~conf.declared
    THEN [err |-> "declare queue", s |-> NoScheduler]
    ELSE IF conf.MaxRunningTask <= 0
    THEN [err |-> "max running tasks must be greater than 0",
          s |-> NoScheduler]
    ELSE IF conf.MaxTimeForTaskExecution <= 0
    THEN [err |-> "max time for task execution must be greater than 0",
          s |-> NoScheduler]
    ELSE [err |-> "nil",
          s |-> [sem |-> conf.MaxRunningTask, shutdown |-> FALSE,
                 executers |-> {}, maxRetries |-> conf.MaxRetries,
                 maxTimeForTaskExecution |-> conf.MaxTimeForTaskExecution]]

\* New: the error and the scheduler it returns.
New(conf) ==
    IF ~conf.declared
    THEN [err |-> "declare queue", s |-> NoScheduler]
    ELSE IF conf.MaxRunningTask <= 0
    THEN [err |-> "max running tasks must be greater than 0",
          s |-> NoScheduler]
    ELSE IF conf.MaxRetries < 0
    THEN [err |-> "max retries must be greater or equal to 0",
          s |-> NoScheduler]
    ELSE IF conf.MaxTimeForTaskExecution <= 0
    THEN [err |-> "max time for task execution must be greater than 0",
          s |-> NoScheduler]
    ELSE [err |-> "nil",
          s |-> [sem |-> conf.MaxRunningTask, shutdown |-> FALSE,
                 executers |-> {}, maxRetries |-> conf.MaxRetries,
                 maxTimeForTaskExecution |-> conf.MaxTimeForTaskExecution]]

(***************************************************************************)
(* Init: the state after New, with the four consumers and the monitor      *)
(* started.                                                                *)
(***************************************************************************)
InitCommon ==
    /\ now = 0
    /\ store = [t \in Tasks |-> NoTask]
    /\ retries = [t \in Tasks |-> NoKey]
    /\ qTasks = <<>>
    /\ qSuccess = <<>>
    /\ qFailed = <<>>
    /\ qRetry = <<>>
    /\ shutdown = New(Conf).s.shutdown
    /\ sem = New(Conf).s.sem
    /\ executers = New(Conf).s.executers
    /\ wg = 0
    /\ ex = [i \in ExecIds |-> Idle]
    /\ tc = [pc |-> "recv", tsk |-> NoTsk]
    /\ rc = "running"
    /\ handlers = EmptyBag
    /\ mon = [running |-> TRUE, next |-> OneMinute]
    /\ sd = [pc |-> "idle", deadline |-> 0, grace |-> 0, ret |-> "none"]
    /\ runs = [t \in Tasks |-> 0]
    /\ updates = [t \in Tasks |-> 0]
    /\ hist = [lateRetryPub |-> FALSE, retryAtShutdown |-> {},
               succeeded |-> {}, monDue |-> {}, monFailed |-> {},
               honoured |-> FALSE, lateOutcome |-> {}, written |-> {},
               garbage |-> 0, failedRuns |-> {}, ackErr |-> FALSE]
    /\ op = NoCall

\* One task, scheduled up to MaxAhead units ahead, with faults.
Init ==
    InitCommon /\ env = [faults |-> TRUE, ids |-> {"T1"},
                        ahead |-> MaxAhead, grace |-> MaxGrace,
                        acks |-> FALSE]

\* The same without faults.
InitOK ==
    InitCommon /\ env = [faults |-> FALSE, ids |-> {"T1"},
                        ahead |-> MaxAhead, grace |-> MaxGrace,
                        acks |-> FALSE]

\* One task scheduled for now, with faults and the shortest grace period.
InitExec ==
    InitCommon /\ env = [faults |-> TRUE, ids |-> {"T1"},
                        ahead |-> 0, grace |-> 1,
                        acks |-> FALSE]

\* One task scheduled for now, without faults.
InitMalformed ==
    InitCommon /\ env = [faults |-> FALSE, ids |-> {"T1"},
                        ahead |-> 0, grace |-> 1,
                        acks |-> FALSE]

\* Two tasks, scheduled up to MaxAhead units ahead, with faults.
InitMonitor ==
    InitCommon /\ env = [faults |-> TRUE, ids |-> {"T1", "T2"},
                        ahead |-> MaxAhead, grace |-> 1,
                        acks |-> FALSE]

\* One task scheduled for now; msg.Ack may fail, nothing else does.
InitAck ==
    InitCommon /\ env = [faults |-> FALSE, ids |-> {"T1"},
                        ahead |-> 0, grace |-> 1,
                        acks |-> TRUE]

\* Two tasks scheduled for now, with faults.
InitCore ==
    InitCommon /\ env = [faults |-> TRUE, ids |-> {"T1", "T2"},
                        ahead |-> 0, grace |-> 1,
                        acks |-> FALSE]

\* The same without faults.
InitCoreOK ==
    InitCommon /\ env = [faults |-> FALSE, ids |-> {"T1", "T2"},
                        ahead |-> 0, grace |-> 1,
                        acks |-> FALSE]

\* Three tasks scheduled for now, with faults.
InitPool ==
    InitCommon /\ env = [faults |-> TRUE, ids |-> Tasks,
                        ahead |-> 0, grace |-> 1,
                        acks |-> FALSE]


(***************************************************************************)
(* Helpers of the actions.                                                 *)
(***************************************************************************)
\* Service.UpdateTask: the fields of ut that are set overwrite the task.
UpdateTask(task, ut) ==
    [task EXCEPT
        !.Status = IF "Status" \in DOMAIN ut THEN ut.Status ELSE @,
        !.ErrMessage = IF "ErrMessage" \in DOMAIN ut THEN ut.ErrMessage ELSE @,
        !.Result = IF "Result" \in DOMAIN ut THEN ut.Result ELSE @]

\* Mutant of StoreUpdate: the status column is not written.
StoreUpdate_NoStatus(st, task) ==
    IF st[task.Id] = NoTask THEN st
    ELSE [st EXCEPT ![task.Id] =
            [@ EXCEPT !.Result = toDBTask(task).Result,
                      !.ErrorMessage = toDBTask(task).ErrorMessage]]

\* Repository.Update of the task store: status, result and error_msg of the
\* row with the task's id are overwritten; an unknown id changes nothing.
StoreUpdate(st, task) ==
    IF st[task.Id] = NoTask THEN st
    ELSE [st EXCEPT ![task.Id] =
            [@ EXCEPT !.Status = toDBTask(task).Status,
                      !.Result = toDBTask(task).Result,
                      !.ErrorMessage = toDBTask(task).ErrorMessage]]

\* Mutant of SemAvailable: the receive from s.sem never blocks.
SemAvailable_NoWait == TRUE

\* case <-s.sem of submitTask: a token can be received.
SemAvailable == sem > 0

\* uuid.NewString: a fresh executer id.
NewExecuterId == CHOOSE i \in ExecIds :
    /\ ex[i].pc = "free"
    /\ \A j \in ExecIds : j < i => ex[j].pc # "free"

\* Sequences that list every element of S once.
Orders(S) ==
    {f \in [1..Cardinality(S) -> S] :
        \A i, j \in 1..Cardinality(S) : i # j => f[i] # f[j]}

\* Messages published for the tasks of sequence ord, read from the store.
DueMessages(ord) ==
    [i \in 1..Len(ord) |-> Marshal(toDomainTask(ord[i], store[ord[i]]))]

\* Mutant of PublishOnCreate: a difference of one minute is published too.
PublishOnCreate_Inclusive(difference) == difference <= OneMinute

\* difference < time.Minute of CreateTask.
PublishOnCreate(difference) == difference < OneMinute

(***************************************************************************)
(* Service.CreateTask                                                      *)
(***************************************************************************)
CreateTask ==
    \E t \in env.ids, d \in 0..env.ahead, pub \in Outcomes :
        LET task == [Id |-> t, Status |-> StatusPending, Result |-> "",
                     ErrMessage |-> "", ScheduledAt |-> now + d]
            difference == task.ScheduledAt - now
        IN /\ store[t] = NoTask
           /\ task.ScheduledAt <= MaxTime
           /\ store' = [store EXCEPT ![t] = toDBTask(task)]
           /\ qTasks' = IF PublishOnCreate(difference) /\ pub
                        THEN Append(qTasks, Marshal(task))
                        ELSE qTasks
           /\ UNCHANGED <<now, env, op, retries, qSuccess, qFailed, qRetry,
                          shutdown, sem, executers, wg, ex, tc, rc, handlers,
                          mon, sd, runs, updates, hist>>

\* Mutant of SeenAtShutdown: the delivery is acknowledged before the return.
SeenAtShutdown_Acked(q) == Tail(q)

\* queue_tasks after ConsumeTasks took the shutdown case of its select: the
\* goroutine returns before msg.Ack, the delivery stays with the broker.
SeenAtShutdown(q) == q

\* Mutant of AfterParseError: the loop returns instead of continuing.
AfterParseError_Return == [pc |-> "exited", tsk |-> NoTsk]

\* ConsumeTasks after parseTask returned an error: continue, the loop waits
\* for the next delivery.
AfterParseError == [pc |-> "recv", tsk |-> NoTsk]

(***************************************************************************)
(* Scheduler.ConsumeTasks: one iteration of the loop up to submitTask.     *)
(***************************************************************************)
ConsumeTasks ==
    /\ tc.pc = "recv"
    /\ qTasks # <<>>
    /\ IF shutdown
       THEN /\ tc' = [pc |-> "exited", tsk |-> NoTsk]
            /\ qTasks' = SeenAtShutdown(qTasks)
            /\ UNCHANGED hist
       ELSE \E ack \in AckOutcomes :
            /\ qTasks' = Tail(qTasks)
            /\ hist' = [hist EXCEPT !.ackErr = ~ack]
            /\ tc' = IF ~Acked(ack)
                     THEN [pc |-> "recv", tsk |-> NoTsk]
                     ELSE IF Unmarshals(Head(qTasks))
                     THEN [pc |-> "submit", tsk |-> parseTask(Head(qTasks))]
                     ELSE AfterParseError
    /\ UNCHANGED <<now, env, op, store, retries, qSuccess, qFailed, qRetry,
                   shutdown, sem, executers, wg, ex, rc, handlers, mon, sd,
                   runs, updates>>

\* Mutant of submitTask_Select: the refusal consumes a token when there is
\* one.
submitTask_Select_Leak ==
    /\ tc.pc = "submit"
    /\ \/ /\ shutdown
          /\ tc' = [pc |-> "recv", tsk |-> NoTsk]
          /\ sem' = IF sem > 0 THEN sem - 1 ELSE sem
       \/ /\ SemAvailable
          /\ sem' = sem - 1
          /\ tc' = [tc EXCEPT !.pc = "acquired"]
    /\ UNCHANGED <<now, env, op, store, retries, qTasks, qSuccess, qFailed,
                   qRetry, shutdown, executers, wg, ex, rc, handlers, mon, sd,
                   runs, updates, hist>>

(***************************************************************************)
(* Scheduler.submitTask: the select on the shutdown latch and the          *)
(* semaphore.                                                              *)
(***************************************************************************)
submitTask_Select ==
    /\ tc.pc = "submit"
    /\ \/ /\ shutdown
          /\ tc' = [pc |-> "recv", tsk |-> NoTsk]
          /\ UNCHANGED sem
       \/ /\ SemAvailable
          /\ sem' = sem - 1
          /\ tc' = [tc EXCEPT !.pc = "acquired"]
    /\ UNCHANGED <<now, env, op, store, retries, qTasks, qSuccess, qFailed,
                   qRetry, shutdown, executers, wg, ex, rc, handlers, mon, sd,
                   runs, updates, hist>>

\* Mutant of deadline: one unit more than the execution time.
deadline_Late == now + maxTimeForTaskExecution + 1

\* Mutant of deadline: the execution time starts at ScheduledAt of the task.
deadline_AtSchedule ==
    (IF tc.tsk.ScheduledAt > now THEN tc.tsk.ScheduledAt ELSE now)
        + maxTimeForTaskExecution

\* deadline := time.Now().Add(s.maxTimeForTaskExecution) of submitTask.
deadline == now + maxTimeForTaskExecution

(***************************************************************************)
(* Scheduler.submitTask: deadline, registration, wg.Add and go.            *)
(***************************************************************************)
submitTask_Register ==
    /\ tc.pc = "acquired"
    /\ \E i \in ExecIds : ex[i].pc = "free"
    /\ LET executerId == NewExecuterId
       IN /\ executers' = executers \cup {executerId}
          /\ wg' = wg + 1
          /\ ex' = [ex EXCEPT ![executerId] =
                      [pc |-> "sleep", tsk |-> tc.tsk, deadline |-> deadline,
                       cancelled |-> FALSE]]
    /\ tc' = [pc |-> "recv", tsk |-> NoTsk]
    /\ UNCHANGED <<now, env, op, store, retries, qTasks, qSuccess, qFailed,
                   qRetry, shutdown, sem, rc, handlers, mon, sd, runs,
                   updates, hist>>

\* Mutant of SleepOver: the sleep ends when the context is cancelled.
SleepOver_Cancellable(e) == e.cancelled \/ ~(timeTillExecution(e) > 0)

\* time.Sleep(timeTillExecution) of the executer has returned, or was not
\* called; it takes no context.
SleepOver(e) == ~(timeTillExecution(e) > 0)

(***************************************************************************)
(* Executer goroutine: the sleep until ScheduledAt is over and             *)
(* docker.RunCommand is called.                                            *)
(***************************************************************************)
Executer_Run ==
    \E i \in ExecIds :
        /\ ex[i].pc = "sleep"
        /\ SleepOver(ex[i])
        /\ ex' = [ex EXCEPT ![i].pc = "run"]
        /\ runs' = [runs EXCEPT ![ex[i].tsk.Id] = @ + 1]
        /\ UNCHANGED <<now, env, op, store, retries, qTasks, qSuccess, qFailed,
                       qRetry, shutdown, sem, executers, wg, tc, rc, handlers,
                       mon, sd, updates, hist>>

\* Mutant of Outcome: a failed run is published with status completed.
Outcome_Completed(tsk, ok) ==
    IF ok
    THEN [tsk EXCEPT !.Result = Stdout, !.Status = StatusCompleted]
    ELSE [tsk EXCEPT !.ErrMessage = RunError, !.Status = StatusCompleted]

\* Mutant of Outcome: the output of a successful run is not kept.
Outcome_NoResult(tsk, ok) ==
    IF ok
    THEN [tsk EXCEPT !.Status = StatusCompleted]
    ELSE [tsk EXCEPT !.ErrMessage = RunError, !.Status = StatusFailed]

\* The snapshot the executer publishes: result and status after a
\* successful run, error message and status after a failed one.
Outcome(tsk, ok) ==
    IF ok
    THEN [tsk EXCEPT !.Result = Stdout, !.Status = StatusCompleted]
    ELSE [tsk EXCEPT !.ErrMessage = RunError, !.Status = StatusFailed]

\* Mutant of removeExecuter: the entry stays in the map.
removeExecuter_Keep(m, executerId) == m

\* Scheduler.removeExecuter: delete(s.executers, id) under the lock.
removeExecuter(m, executerId) == m \ {executerId}

(***************************************************************************)
(* Executer goroutine: docker.RunCommand returns, the outcome is           *)
(* published, and the deferred cleanup runs up to wg.Done.                 *)
(***************************************************************************)
Executer_Finish ==
    \E i \in ExecIds, pub \in Outcomes :
    \E ok \in (IF CtxDone(ex[i]) THEN {FALSE} ELSE BOOLEAN) :
        LET tsk == Outcome(ex[i].tsk, ok)
        IN /\ ex[i].pc = "run"
           /\ qSuccess' = IF ok /\ pub THEN Append(qSuccess, Marshal(tsk))
                          ELSE qSuccess
           /\ qRetry' = IF ~ok /\ pub THEN Append(qRetry, Marshal(tsk))
                        ELSE qRetry
           /\ executers' = removeExecuter(executers, i)
           /\ wg' = wg - 1
           /\ ex' = [ex EXCEPT ![i] = [Idle EXCEPT !.pc = "release",
                                                   !.cancelled = TRUE]]
           /\ hist' = [hist EXCEPT !.succeeded =
                          IF ok THEN @ \cup {tsk.Id} ELSE @,
                                   !.failedRuns =
                          IF ok THEN @ ELSE @ \cup {tsk.Id},
                                   !.lateOutcome =
                          IF ok /\ pub /\ shutdown THEN @ \cup {tsk.Id}
                          ELSE @]
           /\ UNCHANGED <<now, env, op, store, retries, qTasks, qFailed,
                          shutdown, sem, tc, rc, handlers, mon, sd, runs,
                          updates>>

\* s.sem <- struct{}{}: the buffer of the channel, made with capacity
\* MaxRunningTask, has room for one more token.
SemHasRoom == sem < MaxRunningTask

\* Mutant of Executer_Release: the goroutine ends without returning the
\* token.
Executer_Release_Keep ==
    \E i \in ExecIds :
        /\ ex[i].pc = "release"
        /\ ex' = [ex EXCEPT ![i] = Idle]
        /\ UNCHANGED <<now, env, op, store, retries, qTasks, qSuccess, qFailed,
                       qRetry, shutdown, sem, executers, wg, tc, rc, handlers,
                       mon, sd, runs, updates, hist>>

(***************************************************************************)
(* Executer goroutine: the semaphore token is returned.                    *)
(***************************************************************************)
Executer_Release ==
    \E i \in ExecIds :
        /\ ex[i].pc = "release"
        /\ SemHasRoom
        /\ sem' = sem + 1
        /\ ex' = [ex EXCEPT ![i] = Idle]
        /\ UNCHANGED <<now, env, op, store, retries, qTasks, qSuccess, qFailed,
                       qRetry, shutdown, executers, wg, tc, rc, handlers,
                       mon, sd, runs, updates, hist>>


\* Mutant of OutcomeConsumerRuns: the loops stop when the latch is closed.
OutcomeConsumerRuns_UntilShutdown == ~shutdown

\* The range loops of OnTaskSuccess and OnTaskFailure have no case for the
\* shutdown latch: they take deliveries as long as the channel is open.
OutcomeConsumerRuns == TRUE

(***************************************************************************)
(* Scheduler.OnTaskSuccess: a delivery is handed to a new                  *)
(* handleSuccessMessage goroutine, which acknowledges and parses it.       *)
(***************************************************************************)
OnTaskSuccess ==
    \E ack \in AckOutcomes :
    /\ OutcomeConsumerRuns
    /\ qSuccess # <<>>
    /\ qSuccess' = Tail(qSuccess)
    /\ hist' = [hist EXCEPT !.ackErr = ~ack]
    /\ handlers' =
          IF Acked(ack) /\ Unmarshals(Head(qSuccess))
          THEN handlers (+) One(Handler("success", parseTask(Head(qSuccess)), 0))
          ELSE handlers
    /\ UNCHANGED <<now, env, op, store, retries, qTasks, qFailed, qRetry,
                   shutdown, sem, executers, wg, ex, tc, rc, mon, sd, runs,
                   updates>>

(***************************************************************************)
(* Scheduler.handleSuccessMessage: the update of the task service.         *)
(***************************************************************************)
handleSuccessMessage ==
    \E h \in BagToSet(handlers), ok \in Outcomes :
        LET ut == [Status |-> h.tsk.Status, Result |-> h.tsk.Result]
        IN /\ h.kind = "success"
           /\ handlers' = handlers (-) One(h)
           /\ store' = IF ok THEN StoreUpdate(store, UpdateTask(h.tsk, ut))
                       ELSE store
           /\ updates' = IF ok THEN [updates EXCEPT ![h.tsk.Id] = @ + 1]
                         ELSE updates
           /\ UNCHANGED <<now, env, op, retries, qTasks, qSuccess, qFailed,
                          qRetry, shutdown, sem, executers, wg, ex, tc, rc,
                          mon, sd, runs, hist>>

(***************************************************************************)
(* Scheduler.OnTaskFailure: a delivery is handed to a new                  *)
(* handleFailedMessage goroutine, which acknowledges and parses it.        *)
(***************************************************************************)
OnTaskFailure ==
    \E ack \in AckOutcomes :
    /\ OutcomeConsumerRuns
    /\ qFailed # <<>>
    /\ qFailed' = Tail(qFailed)
    /\ hist' = [hist EXCEPT !.ackErr = ~ack]
    /\ handlers' =
          IF Acked(ack) /\ Unmarshals(Head(qFailed))
          THEN handlers (+) One(Handler("failed", parseTask(Head(qFailed)), 0))
          ELSE handlers
    /\ UNCHANGED <<now, env, op, store, retries, qTasks, qSuccess, qRetry,
                   shutdown, sem, executers, wg, ex, tc, rc, mon, sd, runs,
                   updates>>

\* The update handleFailedMessage makes for the parsed task tsk.
FailedUpdate(tsk) ==
    UpdateTask(tsk, [Status |-> tsk.Status, ErrMessage |-> tsk.ErrMessage])

(***************************************************************************)
(* Scheduler.handleFailedMessage: the update of the task service.          *)
(***************************************************************************)
handleFailedMessage ==
    \E h \in BagToSet(handlers), ok \in Outcomes :
        /\ h.kind = "failed"
        /\ handlers' = handlers (-) One(h)
        /\ store' = IF ok THEN StoreUpdate(store, FailedUpdate(h.tsk))
                    ELSE store
        /\ updates' = IF ok THEN [updates EXCEPT ![h.tsk.Id] = @ + 1]
                      ELSE updates
        /\ UNCHANGED <<now, env, op, retries, qTasks, qSuccess, qFailed,
                       qRetry, shutdown, sem, executers, wg, ex, tc, rc,
                       mon, sd, runs, hist>>

(***************************************************************************)
(* Scheduler.OnTaskRetry: one iteration of the loop.  With the latch       *)
(* closed the delivery goes through handleFailedMessage and the loop       *)
(* returns; otherwise a handleRetryMessage goroutine is started, which     *)
(* acknowledges, parses and reads the retry counter.                       *)
(***************************************************************************)
OnTaskRetry ==
    \E ok \in Outcomes, ack \in AckOutcomes :
        LET parsed == Acked(ack) /\ Unmarshals(Head(qRetry))
            tsk == parseTask(Head(qRetry))
            got == Get(retries, tsk.Id)
        IN /\ rc = "running"
           /\ qRetry # <<>>
           /\ qRetry' = Tail(qRetry)
           /\ hist' = [hist EXCEPT !.ackErr = ~ack]
           /\ IF shutdown
              THEN /\ rc' = "exited"
                   /\ store' = IF parsed /\ ok
                               THEN StoreUpdate(store, FailedUpdate(tsk))
                               ELSE store
                   /\ updates' = IF parsed /\ ok
                                 THEN [updates EXCEPT ![tsk.Id] = @ + 1]
                                 ELSE updates
                   /\ UNCHANGED handlers
              ELSE /\ handlers' =
                        IF parsed /\ ok
                        THEN handlers (+) One(Handler("retry", tsk,
                                 IF got = NotFound THEN 0 ELSE got))
                        ELSE handlers
                   /\ UNCHANGED <<rc, store, updates>>
           /\ UNCHANGED <<now, env, op, retries, qTasks, qSuccess, qFailed,
                          shutdown, sem, executers, wg, ex, tc, mon, sd, runs>>

\* Mutant of BudgetExceeded: one more attempt passes the comparison.
BudgetExceeded_Late(n) == n > MaxRetries + 1

\* Mutant of BudgetExceeded: the comparison is >= instead of >.
BudgetExceeded_Early(n) == n >= MaxRetries

\* retries > s.maxRetries of handleRetryMessage.
BudgetExceeded(n) == n > MaxRetries

\* Mutant of Republish: the task is published whether or not the counter
\* was written.
Republish_Always(upd, pub) == pub

\* handleRetryMessage returns when redisRepo.Update fails; publishTask to
\* queue_tasks comes after it and succeeds or not.
Republish(upd, pub) == upd /\ pub

(***************************************************************************)
(* Scheduler.handleRetryMessage after the read of the counter: increment,  *)
(* then queue_failed, or the counter update and queue_tasks.               *)
(***************************************************************************)
handleRetryMessage ==
    \E h \in BagToSet(handlers), upd \in Outcomes, pub \in Outcomes :
        LET n == h.retries + 1
            toTasks == ~BudgetExceeded(n) /\ Republish(upd, pub)
        IN /\ h.kind = "retry"
           /\ handlers' = handlers (-) One(h)
           /\ qFailed' = IF BudgetExceeded(n) /\ pub
                         THEN Append(qFailed, Marshal(h.tsk))
                         ELSE qFailed
           /\ retries' = IF ~BudgetExceeded(n) /\ upd
                         THEN Update(retries, h.tsk.Id, n)
                         ELSE retries
           /\ qTasks' = IF toTasks THEN Append(qTasks, Marshal(h.tsk))
                        ELSE qTasks
           /\ hist' = [hist EXCEPT !.lateRetryPub = @ \/ (shutdown /\ toTasks),
                                   !.written =
                          IF ~BudgetExceeded(n) /\ upd THEN @ \cup {h.tsk.Id}
                          ELSE @]
           /\ UNCHANGED <<now, env, op, store, qSuccess, qRetry, shutdown, sem,
                          executers, wg, ex, tc, rc, mon, sd, runs, updates>>

\* Mutant of Republished: the loop over the due tasks ends at a publish
\* error.
Republished_Stop(dueTasks, failed) ==
    IF failed = {} THEN dueTasks ELSE {}

\* The loop over dueTasks of MonitorScheduledTasks: a publish error is
\* logged and the loop continues with the next task.
Republished(dueTasks, failed) == dueTasks \ failed

(***************************************************************************)
(* Scheduler.MonitorScheduledTasks: one tick of the ticker.                *)
(***************************************************************************)
MonitorScheduledTasks ==
    /\ mon.running
    /\ now >= mon.next
    /\ IF shutdown
       THEN /\ mon' = [running |-> FALSE, next |-> 0]
            /\ UNCHANGED <<qTasks, hist>>
       ELSE \E qok \in Outcomes :
              IF ~qok
              THEN /\ mon' = [running |-> FALSE, next |-> 0]
                   /\ UNCHANGED <<qTasks, hist>>
              ELSE LET dueTasks == GetAllDueTasks(now)
                   IN \E failed \in (IF env.faults THEN SUBSET dueTasks ELSE {{}}) :
                      \E ord \in Orders(Republished(dueTasks, failed)) :
                        /\ qTasks' = qTasks \o DueMessages(ord)
                        /\ mon' = [mon EXCEPT !.next = @ + OneMinute]
                        /\ hist' = [hist EXCEPT !.monDue = dueTasks,
                                                !.monFailed = failed]
    /\ UNCHANGED <<now, env, op, store, retries, qSuccess, qFailed, qRetry,
                   shutdown, sem, executers, wg, ex, tc, rc, handlers, sd,
                   runs, updates>>

\* The executer is past time.Sleep: docker.RunCommand gets its context and
\* returns when the context is cancelled.
HonoursCancel(e) ==
    e.pc = "run" \/ (e.pc = "sleep" /\ ~(timeTillExecution(e) > 0))

(***************************************************************************)
(* Scheduler.Shutdown: the latch is closed and every registered cancel is  *)
(* called; the caller's context expires after g units.                     *)
(***************************************************************************)
Shutdown_Begin ==
    \E g \in 1..env.grace :
        /\ sd.pc = "idle"
        /\ shutdown' = TRUE
        /\ ex' = [i \in ExecIds |->
                    IF i \in executers THEN [ex[i] EXCEPT !.cancelled = TRUE]
                    ELSE ex[i]]
        /\ sd' = [pc |-> "wait", deadline |-> now + g, grace |-> g,
                  ret |-> "none"]
        /\ hist' = [hist EXCEPT !.retryAtShutdown =
                       {t \in Tasks :
                          \/ Count(t, qRetry) > 0
                          \/ \E h \in BagToSet(handlers) :
                                h.kind = "retry" /\ h.tsk.Id = t},
                                !.honoured =
                       \A i \in executers : HonoursCancel(ex[i])]
        /\ UNCHANGED <<now, env, op, store, retries, qTasks, qSuccess, qFailed,
                       qRetry, sem, executers, wg, tc, rc, handlers, mon,
                       runs, updates>>

(***************************************************************************)
(* Scheduler.Shutdown: the select on wg.Wait and ctx.Done.                 *)
(***************************************************************************)
Shutdown_Return ==
    /\ sd.pc = "wait"
    /\ \/ /\ wg = 0
          /\ sd' = [sd EXCEPT !.pc = "returned", !.deadline = 0, !.ret = "nil"]
       \/ /\ now >= sd.deadline
          /\ sd' = [sd EXCEPT !.pc = "returned", !.deadline = 0,
                               !.ret = "ctxErr"]
    /\ UNCHANGED <<now, env, op, store, retries, qTasks, qSuccess, qFailed,
                   qRetry, shutdown, sem, executers, wg, ex, tc, rc, handlers,
                   mon, runs, updates, hist>>

(***************************************************************************)
(* The clock advances by one unit.  Steps that do not wait take less than  *)
(* a unit: the monitor handles a tick of its ticker before the next unit   *)
(* starts, docker.RunCommand returns within the unit in which its context  *)
(* is done, Shutdown returns within the unit in which wg.Wait returns,     *)
(* submitTask registers the executer within the unit in which it got the   *)
(* token, and an executer calls docker.RunCommand within the unit in which *)
(* its sleep ends.                                                         *)
(***************************************************************************)
Tick ==
    /\ now < MaxTime
    /\ mon.running => now < mon.next
    /\ \A i \in ExecIds : ex[i].pc = "run" => ~CtxDone(ex[i])
    /\ ~(sd.pc = "wait" /\ wg = 0)
    /\ tc.pc # "acquired"
    /\ \A i \in ExecIds :
          ex[i].pc = "sleep" => timeTillExecution(ex[i]) > 0
    /\ now' = now + 1
    /\ UNCHANGED <<env, op, store, retries, qTasks, qSuccess, qFailed, qRetry,
                   shutdown, sem, executers, wg, ex, tc, rc, handlers, mon,
                   sd, runs, updates, hist>>

Next ==
    \/ CreateTask
    \/ ConsumeTasks
    \/ submitTask_Select
    \/ submitTask_Register
    \/ Executer_Run
    \/ Executer_Finish
    \/ Executer_Release
    \/ OnTaskSuccess
    \/ handleSuccessMessage
    \/ OnTaskFailure
    \/ handleFailedMessage
    \/ OnTaskRetry
    \/ handleRetryMessage
    \/ MonitorScheduledTasks
    \/ Shutdown_Begin
    \/ Shutdown_Return
    \/ Tick

\* The steps of the first time unit: the clock and the monitor do not move.
NextCore ==
    \/ CreateTask
    \/ ConsumeTasks
    \/ submitTask_Select
    \/ submitTask_Register
    \/ Executer_Run
    \/ Executer_Finish
    \/ Executer_Release
    \/ OnTaskSuccess
    \/ handleSuccessMessage
    \/ OnTaskFailure
    \/ handleFailedMessage
    \/ OnTaskRetry
    \/ handleRetryMessage
    \/ Shutdown_Begin
    \/ Shutdown_Return

(***************************************************************************)
(* A call of New with a configuration of Confs.                            *)
(***************************************************************************)
CallNew ==
    \E conf \in Confs :
        /\ op' = [name |-> "New", conf |-> conf, ret |-> New(conf)]
        /\ UNCHANGED <<now, env, store, retries, qTasks, qSuccess, qFailed,
                       qRetry, shutdown, sem, executers, wg, ex, tc, rc,
                       handlers, mon, sd, runs, updates, hist>>

NextNew == CallNew

(***************************************************************************)
(* Calls of the RetryStore from outside the scheduler.  A call that fails  *)
(* with a redis error changes nothing.                                     *)
(***************************************************************************)
CallCreate ==
    \E taskId \in env.ids, ok \in Outcomes :
        /\ retries' = IF ok THEN Create(retries, taskId) ELSE retries
        /\ op' = [name |-> "Create", id |-> taskId, n |-> 0, ret |-> 0,
                  err |-> IF ok THEN "nil" ELSE "error"]
        /\ hist' = [hist EXCEPT !.written = IF ok THEN @ \cup {taskId} ELSE @]
        /\ UNCHANGED <<now, env, store, qTasks, qSuccess, qFailed, qRetry,
                       shutdown, sem, executers, wg, ex, tc, rc, handlers,
                       mon, sd, runs, updates>>

CallGet ==
    \E taskId \in env.ids, ok \in Outcomes :
        /\ op' = [name |-> "Get", id |-> taskId, n |-> 0,
                  ret |-> IF ok THEN Get(retries, taskId) ELSE 0,
                  err |-> IF ~ok THEN "error"
                          ELSE IF Get(retries, taskId) = NotFound
                          THEN "redis.Nil" ELSE "nil"]
        /\ UNCHANGED <<now, env, store, retries, qTasks, qSuccess, qFailed,
                       qRetry, shutdown, sem, executers, wg, ex, tc, rc,
                       handlers, mon, sd, runs, updates, hist>>

CallUpdate ==
    \E taskId \in env.ids, n \in 0..MaxCount, ok \in Outcomes :
        /\ retries' = IF ok THEN Update(retries, taskId, n) ELSE retries
        /\ op' = [name |-> "Update", id |-> taskId, n |-> n, ret |-> 0,
                  err |-> IF ok THEN "nil" ELSE "error"]
        /\ hist' = [hist EXCEPT !.written = IF ok THEN @ \cup {taskId} ELSE @]
        /\ UNCHANGED <<now, env, store, qTasks, qSuccess, qFailed, qRetry,
                       shutdown, sem, executers, wg, ex, tc, rc, handlers,
                       mon, sd, runs, updates>>

CallDelete ==
    \E taskId \in env.ids, ok \in Outcomes :
        /\ retries' = IF ok THEN Delete(retries, taskId) ELSE retries
        /\ op' = [name |-> "Delete", id |-> taskId, n |-> 0, ret |-> 0,
                  err |-> IF ~ok THEN "error"
                          ELSE IF retries[taskId] = NoKey THEN "redis.Nil"
                          ELSE "nil"]
        /\ UNCHANGED <<now, env, store, qTasks, qSuccess, qFailed, qRetry,
                       shutdown, sem, executers, wg, ex, tc, rc, handlers,
                       mon, sd, runs, updates, hist>>

NextRetryStore ==
    \/ CallCreate
    \/ CallGet
    \/ CallUpdate
    \/ CallDelete

Spec == Init /\ [][Next]_vars

\* Calls of the RetryStore only, with redis errors.
SpecRetryStore == InitCore /\ [][NextRetryStore]_vars

\* Calls of New only.
SpecNew == Init /\ [][NextNew]_vars

SpecOK == InitOK /\ [][Next]_vars

\* The whole system for one task that is due when it is created.
SpecExec == InitExec /\ [][Next]_vars

SpecCore == InitCore /\ [][NextCore]_vars

SpecCoreOK == InitCoreOK /\ [][NextCore]_vars

\* One task; the acknowledgement of a delivery may fail.
SpecAck == InitAck /\ [][NextCore]_vars

(***************************************************************************)
(* Some publisher puts a body that is not the JSON of a task on one of the *)
(* four queues.                                                            *)
(***************************************************************************)
PublishGarbage ==
    /\ hist.garbage < MaxGarbage
    /\ hist' = [hist EXCEPT !.garbage = @ + 1]
    /\ \/ qTasks' = Append(qTasks, Garbage)
          /\ UNCHANGED <<qSuccess, qFailed, qRetry>>
       \/ qSuccess' = Append(qSuccess, Garbage)
          /\ UNCHANGED <<qTasks, qFailed, qRetry>>
       \/ qFailed' = Append(qFailed, Garbage)
          /\ UNCHANGED <<qTasks, qSuccess, qRetry>>
       \/ qRetry' = Append(qRetry, Garbage)
          /\ UNCHANGED <<qTasks, qSuccess, qFailed>>
    /\ UNCHANGED <<now, env, op, store, retries, shutdown, sem, executers, wg,
                   ex, tc, rc, handlers, mon, sd, runs, updates>>

NextMalformed == NextCore \/ PublishGarbage

\* The scheduler with one task and queues that also receive bodies that do
\* not decode.
SpecMalformed == InitMalformed /\ [][NextMalformed]_vars

SpecPool == InitPool /\ [][NextCore]_vars

\* The steps with the clock and the monitor, without Shutdown.
NextTimed ==
    \/ CreateTask
    \/ ConsumeTasks
    \/ submitTask_Select
    \/ submitTask_Register
    \/ Executer_Run
    \/ Executer_Finish
    \/ Executer_Release
    \/ OnTaskSuccess
    \/ handleSuccessMessage
    \/ OnTaskFailure
    \/ handleFailedMessage
    \/ OnTaskRetry
    \/ handleRetryMessage
    \/ MonitorScheduledTasks
    \/ Tick

\* One task, the clock and the monitor, with faults and without Shutdown.
SpecTimed == Init /\ [][NextTimed]_vars

\* The same without faults.
SpecTimedOK == InitOK /\ [][NextTimed]_vars

\* The steps of the first time unit without Shutdown.
NextLive ==
    \/ CreateTask
    \/ ConsumeTasks
    \/ submitTask_Select
    \/ submitTask_Register
    \/ Executer_Run
    \/ Executer_Finish
    \/ Executer_Release
    \/ OnTaskSuccess
    \/ handleSuccessMessage
    \/ OnTaskFailure
    \/ handleFailedMessage
    \/ OnTaskRetry
    \/ handleRetryMessage

\* Every goroutine that can take a step eventually takes it.
Fairness ==
    /\ WF_vars(ConsumeTasks)
    /\ WF_vars(submitTask_Select)
    /\ WF_vars(submitTask_Register)
    /\ WF_vars(Executer_Run)
    /\ WF_vars(Executer_Finish)
    /\ WF_vars(Executer_Release)
    /\ WF_vars(OnTaskSuccess)
    /\ WF_vars(handleSuccessMessage)
    /\ WF_vars(OnTaskFailure)
    /\ WF_vars(handleFailedMessage)
    /\ WF_vars(OnTaskRetry)
    /\ WF_vars(handleRetryMessage)

\* No shutdown and no faults, with fair scheduling of the goroutines.
SpecLive == InitCoreOK /\ [][NextLive]_vars /\ Fairness

\* No faults, with Shutdown and fair scheduling of the goroutines.
SpecLiveShutdown == InitCoreOK /\ [][NextCore]_vars /\ Fairness

\* Tasks are created and the monitor runs; no consumer has been started.
NextMonitor ==
    \/ CreateTask
    \/ MonitorScheduledTasks
    \/ Tick
    \/ Shutdown_Begin
    \/ Shutdown_Return

SpecMonitor == InitMonitor /\ [][NextMonitor]_vars

\* One task, the clock and the monitor, with faults and without Shutdown;
\* the goroutines are scheduled fairly, the ticker fires and time passes.
SpecLiveTimed ==
    /\ Init
    /\ [][NextTimed]_vars
    /\ Fairness
    /\ WF_vars(MonitorScheduledTasks)
    /\ WF_vars(Tick)


(***************************************************************************)
(* Properties.                                                             *)
(***************************************************************************)
\* Executers admitted by submitTask (semaphore token taken) and not yet
\* through their cleanup (token not yet returned).
ActiveExecuters ==
    Cardinality({i \in ExecIds : ex[i].pc # "free"})
        + (IF tc.pc = "acquired" THEN 1 ELSE 0)

\* C1: bounded concurrency.  In every reachable state the number of active
\* executers (admitted by submitTask and not yet through cleanup) is at most
\* MaxRunningTask.
C1_BoundedConcurrency == ActiveExecuters <= MaxRunningTask

\* C1 witness: the pool is full while submitTask waits with a further task.
C1_Witness == ActiveExecuters = MaxRunningTask /\ tc.pc = "submit"


\* C2: retry budget.  For every task the number of docker.RunCommand calls
\* never exceeds MaxRetries + 1, whatever the consumers, the monitor and
\* CreateTask do.
C2_RetryBudget == \A t \in Tasks : runs[t] <= MaxRetries + 1

Terminal(t) == store[t].Status \in {"completed", "failed"}

\* C3: terminal exclusivity.  Once the row of a task has status completed or
\* failed, no step makes a further TaskStore update for that task.
C3_TerminalExclusivity ==
    [][\A t \in Tasks : Terminal(t) => updates'[t] = updates[t]]_vars

\* Nothing of task t is left in a queue, a handler, the tasks consumer or an
\* executer.
Settled(t) ==
    /\ Count(t, qTasks) = 0
    /\ Count(t, qSuccess) = 0
    /\ Count(t, qFailed) = 0
    /\ Count(t, qRetry) = 0
    /\ \A h \in BagToSet(handlers) : h.tsk.Id # t
    /\ tc.tsk.Id # t
    /\ \A i \in ExecIds : ex[i].tsk.Id # t

\* C4: retry-counter cleanup.  When the success or failed consumer has
\* persisted a terminal status for a task and nothing of the task is left to
\* process, RetryStore.Get of the task returns NotFound.
C4_RetryCounterCleanup ==
    \A t \in Tasks :
        (Terminal(t) /\ updates[t] > 0 /\ Settled(t)) =>
            Get(retries, t) = NotFound


\* Task t is pending in the store with ScheduledAt <= now + dueWindow.
DuePending(t) ==
    /\ store[t] # NoTask
    /\ store[t].Status = "pending"
    /\ store[t].ScheduledAt <= now + OneMinute

\* The monitor handles a tick of its ticker with the latch open.
MonitorTicks == mon.running /\ ~shutdown /\ now >= mon.next /\ mon' # mon

C6_ShutdownLiveness ==
    sd.grace > maxTimeForTaskExecution => sd.ret # "ctxErr"

\* C7: shutdown safety.  With the shutdown latch closed no retry handler
\* publishes onto queue_tasks, handlers started before the close included.
C7_ShutdownSafety == ~hist.lateRetryPub

\* No goroutine of the scheduler can take a further step.
Quiescent ==
    /\ handlers = EmptyBag
    /\ qSuccess = <<>>
    /\ qFailed = <<>>
    /\ qRetry = <<>> \/ rc = "exited"
    /\ qTasks = <<>> \/ tc.pc = "exited"
    /\ tc.pc \in {"recv", "exited"}
    /\ \A i \in ExecIds : ex[i].pc = "free"

\* C8: graceful shutdown under retry.  Every retry message that was queued
\* or in a handler when Shutdown began has been promoted to terminal failure
\* once the scheduler has come to rest: none is left on queue_retry and its
\* task has status failed.
C8_GracefulShutdownUnderRetry ==
    (shutdown /\ Quiescent) =>
        \A t \in hist.retryAtShutdown :
            Count(t, qRetry) = 0 /\ store[t].Status = "failed"

\* C9: task record invariant.  A pending row has empty result and error
\* message; a terminal row has exactly one of them non-empty: a completed row
\* has an empty error message, a failed row a non-empty one.
C9_TaskRecordInvariant ==
    \A t \in Tasks :
        store[t] # NoTask =>
            /\ store[t].Status = "pending" =>
                  store[t].Result = "" /\ store[t].ErrorMessage = ""
            /\ store[t].Status = "completed" =>
                  store[t].Result # "" /\ store[t].ErrorMessage = ""
            /\ store[t].Status = "failed" =>
                  store[t].Result = "" /\ store[t].ErrorMessage # ""

\* C10: success path liveness.  Without shutdown and faults, every task with
\* a successful run eventually has status completed in the store.
C10_SuccessPathLiveness ==
    \A t \in Tasks : (t \in hist.succeeded) ~> (store[t].Status = "completed")

\* C10 witness: a task with a successful run is completed in the store.
C10_Witness ==
    \E t \in Tasks : t \in hist.succeeded /\ store[t].Status = "completed"

\* Task t has been run MaxRetries + 1 times, its counter is MaxRetries and
\* its row is failed with an error message.
Exhausted(t) ==
    /\ runs[t] = MaxRetries + 1
    /\ Get(retries, t) = MaxRetries
    /\ store[t].Status = "failed"
    /\ store[t].ErrorMessage # ""

ValidConf(c) ==
    c.MaxRunningTask > 0 /\ c.MaxRetries >= 0 /\ c.MaxTimeForTaskExecution > 0

\* New returned a scheduler with a full semaphore, an empty registry and an
\* open latch.
FreshScheduler(c, r) ==
    /\ r.err = "nil"
    /\ r.s # NoScheduler
    /\ r.s.sem = c.MaxRunningTask
    /\ r.s.executers = {}
    /\ r.s.shutdown = FALSE

ExecuterRunning ==
    \/ tc.pc = "acquired"
    \/ \E i \in ExecIds : ex[i].pc \in {"sleep", "run"}

\* C14: shutdown outcome.  Shutdown returns nil when wg.Wait is over before
\* the caller's context is done and the context's error when the context is
\* done first; when every executer registered at Shutdown honours the
\* cancel, Shutdown returns nil and no executer is left running.
C14_ShutdownOutcome ==
    /\ [][(sd.pc = "wait" /\ sd'.pc = "returned") =>
            /\ (wg = 0 /\ now < sd.deadline) => sd'.ret = "nil"
            /\ (wg > 0 /\ now >= sd.deadline) => sd'.ret = "ctxErr"]_vars
    /\ []((sd.pc = "returned" /\ hist.honoured) =>
            (sd.ret = "nil" /\ ~ExecuterRunning))

\* C15: clean shutdown means drained.  Whenever Shutdown has returned nil, no
\* executer is before its wg.Done and submitTask holds no token for an
\* executer it has not started.
C15_CleanShutdownDrained ==
    (sd.pc = "returned" /\ sd.ret = "nil") => ~ExecuterRunning

\* C16: intake stops at shutdown.  With the shutdown latch closed no step
\* takes a token of the semaphore or adds an entry to the registry.
C16_IntakeStopsAtShutdown ==
    [][shutdown => (sem' >= sem /\ executers' \subseteq executers)]_vars

C18_ScheduledExecution ==
    [][\A i \in ExecIds :
        /\ (ex[i].pc = "sleep" /\ ex'[i].pc = "run") =>
              ex[i].tsk.ScheduledAt <= now
        /\ (ex[i].pc = "sleep" /\ ex[i].tsk.ScheduledAt <= now) =>
              now' = now]_vars

\* C18 witness: an executer admitted before ScheduledAt of its task is in
\* docker.RunCommand, at ScheduledAt.
C18_Witness ==
    \E i \in ExecIds :
        /\ ex[i].pc = "run"
        /\ ex[i].deadline - maxTimeForTaskExecution < ex[i].tsk.ScheduledAt
        /\ ex[i].tsk.ScheduledAt = now

\* C19: publish on create.  Without broker errors, the step that stores a
\* task stores it as pending and puts it on queue_tasks if and only if
\* ScheduledAt - now is less than one minute; a stored task that has not been
\* run gets onto queue_tasks in a later step only by the monitor.
C19_PublishOnCreate ==
    [][\A t \in Tasks :
        /\ (store[t] = NoTask /\ store'[t] # NoTask) =>
             /\ store'[t].Status = "pending"
             /\ (Count(t, qTasks') > Count(t, qTasks)) <=>
                   (store'[t].ScheduledAt - now < OneMinute)
        /\ (store[t] # NoTask /\ runs[t] = 0
              /\ Count(t, qTasks') > Count(t, qTasks)) =>
             (mon' # mon /\ t \in hist'.monDue)]_vars

\* C19 witness: a task that is one minute ahead, which the creator does not
\* publish, is on queue_tasks through the monitor.
C19_Witness ==
    \E t \in Tasks :
        /\ store[t] # NoTask
        /\ store[t].ScheduledAt = now + OneMinute
        /\ runs[t] = 0
        /\ Count(t, qTasks) = 1
        /\ t \in hist.monDue

\* The call recorded in o was carried out by redis.
Done(o) == o.err \in {"nil", "redis.Nil"}

\* C20: RetryStore round trips.  A Get that follows a Create of the same id
\* returns 0, one that follows Update(id, n) returns n, one that follows a
\* Delete returns NotFound, a Get of an id never written returns NotFound,
\* and a Create that follows a Create of the same id changes nothing.
C20_RetryStoreRoundTrips ==
    [][/\ (op'.name = "Get" /\ Done(op')) =>
            /\ (op.name = "Create" /\ Done(op) /\ op.id = op'.id) =>
                  (op'.ret = 0 /\ op'.err = "nil")
            /\ (op.name = "Update" /\ Done(op) /\ op.id = op'.id) =>
                  (op'.ret = op.n /\ op'.err = "nil")
            /\ (op.name = "Delete" /\ Done(op) /\ op.id = op'.id) =>
                  (op'.ret = NotFound /\ op'.err = "redis.Nil")
            /\ (op'.id \notin hist.written) =>
                  (op'.ret = NotFound /\ op'.err = "redis.Nil")
       /\ (/\ op.name = "Create" /\ Done(op)
           /\ op'.name = "Create" /\ Done(op') /\ op.id = op'.id) =>
            retries' = retries]_vars

\* C20 witness: a Get that followed Update(id, MaxCount) returned MaxCount.
C20_Witness ==
    /\ op.name = "Get"
    /\ op.err = "nil"
    /\ op.ret = MaxCount
    /\ retries[op.id] = Itoa(MaxCount)

\* C21: due query.  GetDueTasks(now) returns exactly the stored tasks that
\* are pending and whose ScheduledAt - now is at most one minute; a task with
\* a terminal status is not returned.
C21_DueQuery ==
    GetDueTasks(now) =
        {t \in Tasks : /\ store[t] # NoTask
                       /\ store[t].Status = "pending"
                       /\ store[t].ScheduledAt - now <= OneMinute}

\* Tasks the monitor published at the last tick it handled.
MonitorPublished(h) == h.monDue \ h.monFailed

\* C22: single republish.  A task the monitor published at one tick is not
\* published by the monitor again at the next tick: each due task is
\* published by the monitor once.
C22_SingleRepublish ==
    [][MonitorTicks =>
        \A t \in MonitorPublished(hist) : t \notin MonitorPublished(hist')]_vars

\* The count a retry handler reads for task t: redis.Nil is read as 0.
StoredCount(t) == IF Get(retries, t) = NotFound THEN 0 ELSE Get(retries, t)

\* C23: retry counter linearization.  When a retry handler makes its
\* increment and write, the counter of its task still has the value the
\* handler read: no other read-increment-write of the same task came in
\* between.
C23_RetryCounterLinearization ==
    [][\A h \in BagToSet(handlers) :
        (h.kind = "retry" /\ handlers' = handlers (-) One(h)) =>
            h.retries = StoredCount(h.tsk.Id)]_vars

\* Queue q grows by exactly one message in this step, a snapshot of task t
\* with the given status.
Published(q, qNext, t, status) ==
    /\ Len(qNext) = Len(q) + 1
    /\ SubSeq(qNext, 1, Len(q)) = q
    /\ qNext[Len(qNext)].Id = t
    /\ qNext[Len(qNext)].Status = status

\* C24: executer outcome routing.  Without broker errors, the step in which
\* docker.RunCommand returns publishes exactly one message: after a
\* successful run a snapshot with status completed and the output as result
\* on queue_success, after a failed run a snapshot with status failed and the
\* error as error message on queue_retry; queue_tasks and queue_failed are
\* not touched.
C24_OutcomeRouting ==
    [][\A i \in ExecIds :
        (ex[i].pc = "run" /\ ex'[i].pc = "release") =>
            LET t == ex[i].tsk.Id
                ok == t \in hist'.succeeded /\ t \notin hist.succeeded
            IN /\ qTasks' = qTasks
               /\ qFailed' = qFailed
               /\ IF ok
                  THEN /\ qRetry' = qRetry
                       /\ Published(qSuccess, qSuccess', t, StatusCompleted)
                       /\ qSuccess'[Len(qSuccess')].Result = Stdout
                  ELSE /\ qSuccess' = qSuccess
                       /\ Published(qRetry, qRetry', t, StatusFailed)
                       /\ qRetry'[Len(qRetry')].ErrMessage = RunError]_vars

\* C24 witness: an executer has published the snapshot of a successful run
\* and has not yet returned its token.
C24_Witness ==
    \E i \in ExecIds :
        /\ ex[i].pc = "release"
        /\ qSuccess # <<>>
        /\ qSuccess[Len(qSuccess)].Status = StatusCompleted
        /\ qSuccess[Len(qSuccess)].Result = Stdout
        /\ qRetry = <<>>

\* C25: retry decision.  Without errors, a retry handler whose task has the
\* stored count c (redis.Nil read as 0) computes a = c + 1; if a > MaxRetries
\* it publishes the task onto queue_failed and leaves the counter unchanged,
\* otherwise it stores a and publishes the task onto queue_tasks; the other
\* of the two queues is not touched.
C25_RetryDecision ==
    [][\A h \in BagToSet(handlers) :
        (h.kind = "retry" /\ handlers' = handlers (-) One(h)) =>
            LET t == h.tsk.Id
                a == StoredCount(t) + 1
            IN IF a > MaxRetries
               THEN /\ Published(qFailed, qFailed', t, h.tsk.Status)
                    /\ retries' = retries
                    /\ qTasks' = qTasks
               ELSE /\ Get(retries', t) = a
                    /\ Published(qTasks, qTasks', t, h.tsk.Status)
                    /\ qFailed' = qFailed]_vars

\* C25 witness: a task whose counter is at MaxRetries has been published
\* onto queue_failed, after MaxRetries + 1 runs.
C25_Witness ==
    \E t \in Tasks :
        /\ Count(t, qFailed) = 1
        /\ Get(retries, t) = MaxRetries
        /\ runs[t] = MaxRetries + 1

\* C26: stored attempts bound.  Every value the RetryStore holds for a task
\* is a count between 0 and MaxRetries; a count above MaxRetries is never
\* written by the scheduler.
C26_StoredAttemptsBound ==
    \A t \in Tasks :
        retries[t] # NoKey =>
            (Get(retries, t) >= 0 /\ Get(retries, t) <= MaxRetries)

\* C26 witness: the retry handler has written the largest count, MaxRetries.
C26_Witness ==
    \E t \in hist.written : Get(retries, t) = MaxRetries /\ runs[t] > 0

\* C27: executor cleanup.  An executer that leaves its body, whatever the
\* outcome of the run and of the publish and whether or not its context was
\* cancelled by Shutdown or by the deadline, has its context cancelled, its
\* registry entry removed and the in-flight counter decremented, and then
\* returns its semaphore token; tokens are never lost, and when no executer
\* is active the registry is empty and the semaphore holds MaxRunningTask
\* tokens.
C27_ExecutorCleanup ==
    /\ [](/\ sem + ActiveExecuters = MaxRunningTask
          /\ executers = {i \in ExecIds : ex[i].pc \in {"sleep", "run"}}
          /\ wg = Cardinality(executers)
          /\ ActiveExecuters = 0 =>
                (executers = {} /\ sem = MaxRunningTask /\ wg = 0))
    /\ [][\A i \in ExecIds :
            /\ (ex[i].pc = "run" /\ ex'[i].pc # "run") =>
                  /\ ex'[i].pc = "release"
                  /\ ex'[i].cancelled
                  /\ i \notin executers'
                  /\ wg' = wg - 1
            /\ (ex[i].pc = "release" /\ ex'[i].pc # "release") =>
                  /\ ex'[i].pc = "free"
                  /\ sem' = sem + 1]_vars

\* C27 witness: after Shutdown cancelled a running executer, every executer
\* has returned and all the tokens are back.
C27_Witness ==
    /\ hist.honoured
    /\ shutdown
    /\ \E t \in Tasks : runs[t] > 0
    /\ ActiveExecuters = 0
    /\ sem = MaxRunningTask

\* C28: Shutdown cancels all.  Once Shutdown has made its pass over the
\* registry, every registered executer, whether it registered before or
\* after the call, has had its cancel function invoked: no registered
\* executer is left with an uncancelled context.
C28_ShutdownCancelsAll ==
    sd.pc # "idle" => \A i \in executers : ex[i].cancelled

\* C29: a refused submit changes nothing.  When submitTask returns the
\* shutdown error, the semaphore tokens, the registry and the in-flight
\* counter are as before, no executer is started and nothing is published.
C29_RefusedSubmit ==
    [][(tc.pc = "submit" /\ tc'.pc = "recv") =>
          /\ shutdown
          /\ UNCHANGED <<sem, executers, wg, ex, runs>>
          /\ UNCHANGED <<qTasks, qSuccess, qFailed, qRetry>>
          /\ UNCHANGED <<store, retries>>]_vars

\* C29 witness: with the latch closed, a task taken from queue_tasks has no
\* executer and was never run, and ConsumeTasks is back at its receive.
C29_Witness ==
    /\ shutdown
    /\ tc.pc = "recv"
    /\ \E t \in Tasks :
          /\ store[t] # NoTask
          /\ Count(t, qTasks) = 0
          /\ runs[t] = 0
          /\ \A i \in ExecIds : ex[i].tsk.Id # t

\* The step touches neither the TaskStore nor the RetryStore, starts no
\* executer and no handler, and publishes nothing.
NoEffect ==
    /\ UNCHANGED <<store, updates, retries>>
    /\ UNCHANGED <<sem, executers, wg, ex, runs, handlers>>
    /\ Len(qTasks') <= Len(qTasks)
    /\ Len(qSuccess') <= Len(qSuccess)
    /\ Len(qFailed') <= Len(qFailed)
    /\ Len(qRetry') <= Len(qRetry)

\* The consumer of queue q handles a delivery, and its body does not decode.
Takes(q, qNext) == q # <<>> /\ ~Unmarshals(Head(q)) /\ qNext = Tail(q)

Lost(t) ==
    /\ store[t] # NoTask
    /\ store[t].Status = "pending"
    /\ runs[t] > 0
    /\ Count(t, qTasks) = 0
    /\ Count(t, qSuccess) = 0
    /\ Count(t, qFailed) = 0
    /\ Count(t, qRetry) = 0
    /\ tc.tsk.Id # t
    /\ \A i \in ExecIds : ex[i].tsk.Id # t
    /\ \A h \in BagToSet(handlers) : h.tsk.Id # t

\* C31: lost outcome recovery.  A task whose outcome publish failed or
\* whose retry delivery was dropped is still pending in the TaskStore and,
\* as long as the monitor runs and has a tick ahead, is published on
\* queue_tasks again by the monitor, unless the monitor stops or its own
\* publish of the task fails.
C31_LostOutcomeRecovery ==
    \A t \in Tasks :
        (Lost(t) /\ mon.running /\ mon.next <= MaxTime)
            ~> (Count(t, qTasks) > 0 \/ ~mon.running \/ t \in hist.monFailed)

\* C31 witness: a lost task is back on queue_tasks after a tick of the
\* monitor that found it due.
C31_Witness ==
    \E t \in Tasks :
        /\ runs[t] > 0
        /\ store[t] # NoTask
        /\ store[t].Status = "pending"
        /\ Count(t, qTasks) = 1
        /\ Count(t, qRetry) = 0
        /\ Count(t, qSuccess) = 0
        /\ tc.tsk.Id # t
        /\ \A i \in ExecIds : ex[i].tsk.Id # t
        /\ \A h \in BagToSet(handlers) : h.tsk.Id # t
        /\ t \in MonitorPublished(hist)
        /\ retries[t] = NoKey

OutcomeHandlerStep ==
    \/ \E h \in BagToSet(handlers) :
          /\ h.kind \in {"success", "failed"}
          /\ handlers' = handlers (-) One(h)
    \/ (shutdown /\ rc = "running" /\ rc' = "exited")

\* C33: only the outcome consumers write, and only after a run.  The row of
\* a stored task changes only in a step of the success or the failed
\* handler; it is never deleted; status completed is written only when some
\* run of the task has returned success, status failed only when some run of
\* the task has returned an error.
C33_OnlyOutcomeConsumersWrite ==
    [][\A t \in Tasks :
        (store[t] # NoTask /\ store'[t] # store[t]) =>
            /\ OutcomeHandlerStep
            /\ store'[t] # NoTask
            /\ store'[t].Status \in {"completed", "failed"}
            /\ store'[t].Status = "completed" => t \in hist.succeeded
            /\ store'[t].Status = "failed" => t \in hist.failedRuns]_vars

\* C33 witness: one task was recorded as completed and another as failed.
C33_Witness ==
    \E t, u \in Tasks :
        /\ store[t] # NoTask /\ store[t].Status = "completed"
        /\ store[u] # NoTask /\ store[u].Status = "failed"
        /\ updates[t] > 0 /\ updates[u] > 0

\* C34: semaphore conservation.  In every reachable state the tokens in the
\* semaphore plus the executers that took a token and have not returned it
\* are MaxRunningTask, the registry has at most MaxRunningTask entries, and
\* an executer about to return its token finds room in the channel.
C34_SemaphoreConservation ==
    /\ sem >= 0
    /\ sem + ActiveExecuters = MaxRunningTask
    /\ Cardinality(executers) <= MaxRunningTask
    /\ (\E i \in ExecIds : ex[i].pc = "release") => SemHasRoom

\* C34 witness: every token is taken, one executer is about to return its
\* token and another is still running.
C34_Witness ==
    /\ sem = 0
    /\ \E i, j \in ExecIds : ex[i].pc = "release" /\ ex[j].pc = "run"

C36_WaitingConsumesDeadline ==
    /\ [][\A i \in ExecIds :
            /\ (ex[i].pc = "free" /\ ex'[i].pc = "sleep"
                  /\ ex'[i].tsk.ScheduledAt > now)
                  => ex'[i].deadline = now + maxTimeForTaskExecution
            /\ (ex[i].pc = "run" /\ ex[i].tsk.ScheduledAt >= ex[i].deadline
                  /\ ex'[i].pc # "run")
                  => /\ Published(qRetry, qRetry', ex[i].tsk.Id, StatusFailed)
                     /\ qSuccess' = qSuccess
                     /\ ex[i].tsk.Id \in hist'.failedRuns]_vars
    /\ [](\A i \in ExecIds :
            (ex[i].pc = "run" /\ ex[i].tsk.ScheduledAt >= ex[i].deadline)
                => (now >= ex[i].deadline /\ CtxDone(ex[i])))

\* C36 witness: docker.RunCommand has been called by an executer that waited
\* for ScheduledAt until its deadline had passed.
C36_Witness ==
    \E i \in ExecIds :
        /\ ex[i].pc = "run"
        /\ ~ex[i].cancelled
        /\ ex[i].tsk.ScheduledAt > ex[i].deadline
        /\ now = ex[i].tsk.ScheduledAt

\* C37: the monitor stops on a store error.  A tick at which the query for
\* the due tasks fails ends the monitor without a publish, and a monitor
\* that has ended never runs again, so that queue_tasks grows only when a
\* task is created; at a tick at which the query succeeds, every due task
\* whose own publish does not fail is published, whatever happens to the
\* publishes of the others.
C37_MonitorStopsOnStoreError ==
    [][/\ (mon.running /\ ~mon'.running) => qTasks' = qTasks
       /\ ~mon.running =>
             /\ mon' = mon
             /\ qTasks' # qTasks => store' # store
       /\ (mon.running /\ mon'.running /\ mon' # mon) =>
             /\ hist'.monDue = GetAllDueTasks(now)
             /\ hist'.monFailed \subseteq hist'.monDue
             /\ \A t \in Tasks :
                   Count(t, qTasks') =
                      Count(t, qTasks) +
                         (IF t \in hist'.monDue \ hist'.monFailed
                          THEN 1 ELSE 0)]_vars

\* C37 witness: at one tick the publish of one due task failed and another
\* due task was published; at a later tick the query failed and the monitor
\* ended, without Shutdown.
C37_Witness ==
    /\ ~mon.running
    /\ ~shutdown
    /\ hist.monFailed # {}
    /\ MonitorPublished(hist) # {}
    /\ \E t \in MonitorPublished(hist) : Count(t, qTasks) > 0

\* C38: the delivery seen at shutdown stays unacknowledged.  When the loop
\* of ConsumeTasks receives a delivery with the latch closed, the delivery
\* stays on queue_tasks, nothing is decoded or submitted and the loop ends;
\* from then on no message leaves queue_tasks.
C38_SeenAtShutdownStaysUnacked ==
    [][/\ (tc.pc = "recv" /\ shutdown /\ tc' # tc) =>
             /\ tc' = [pc |-> "exited", tsk |-> NoTsk]
             /\ qTasks' = qTasks
             /\ UNCHANGED <<sem, executers, wg, ex, runs>>
             /\ UNCHANGED <<store, retries, qSuccess, qFailed, qRetry>>
       /\ tc.pc = "exited" =>
             /\ tc' = tc
             /\ Len(qTasks') >= Len(qTasks)
             /\ SubSeq(qTasks', 1, Len(qTasks)) = qTasks]_vars

\* C38 witness: the loop has ended on the first of two deliveries, and both
\* are still on queue_tasks.
C38_Witness ==
    /\ tc.pc = "exited"
    /\ Len(qTasks) = 2
    /\ \A t \in Tasks : store[t] # NoTask => runs[t] = 0

\* A consumer takes a delivery from queue q in this step.
Delivered(q, qNext) == q # <<>> /\ qNext = Tail(q)

\* C39: an acknowledgement failure aborts the handler.  When msg.Ack of a
\* delivery of one of the four queues returns an error, the step has no
\* effect on the TaskStore, the RetryStore, the executers or the queues, and
\* nothing is submitted.
C39_AckFailureAborts ==
    [][(/\ hist'.ackErr
        /\ \/ Delivered(qTasks, qTasks')
           \/ Delivered(qSuccess, qSuccess')
           \/ Delivered(qFailed, qFailed')
           \/ Delivered(qRetry, qRetry'))
          => (NoEffect /\ tc' = tc)]_vars

\* C39 witness: the acknowledgement of the last delivery failed, and the
\* task it belonged to has been run and is left pending with nothing of it
\* in the scheduler.
C39_Witness ==
    /\ hist.ackErr
    /\ \E t \in Tasks : Lost(t)

\* C40: counter before republish.  A retry handler that is within the
\* budget publishes the task on queue_tasks only with the incremented count
\* in the RetryStore; when the count is not written nothing is published;
\* the count may be written without a publish, and no step of the scheduler
\* takes a written count back.
C40_CounterBeforeRepublish ==
    [][/\ \A h \in BagToSet(handlers) :
            (h.kind = "retry" /\ handlers' = handlers (-) One(h)
                /\ h.retries + 1 <= MaxRetries) =>
                LET t == h.tsk.Id
                    a == h.retries + 1
                IN /\ retries' \in {retries, Update(retries, t, a)}
                   /\ qTasks' # qTasks =>
                         /\ Published(qTasks, qTasks', t, h.tsk.Status)
                         /\ Get(retries', t) = a
                   /\ Get(retries', t) # a => qTasks' = qTasks
                   /\ qFailed' = qFailed
       /\ \A t \in Tasks : Get(retries', t) >= Get(retries, t)]_vars

\* C40 witness: the count of a task was incremented after its only run, and
\* without Shutdown nothing of the task is left in the scheduler: the
\* publish after the write failed.
C40_Witness ==
    /\ ~shutdown
    /\ \E t \in hist.written :
          /\ Get(retries, t) = 1
          /\ runs[t] = 1
          /\ Lost(t)

=============================================================================
